---- MODULE Spec2Model ----
(***************************************************************************)
(* db-manager (src/main.py): a Flask guest-registration tracker.  The data *)
(* file data.json holds {view_name: [customer, ...]}; every handler loads  *)
(* the whole file, changes its copy and overwrites the file.               *)
(*                                                                         *)
(* Text (form fields, view names, customer names) is a sequence of one-    *)
(* character strings, so that str.strip() and int() are computed as Python *)
(* computes them.  A request is submitted (it is then in flight) and the   *)
(* handler of its endpoint runs to completion in one step.                 *)
(***************************************************************************)
EXTENDS Integers, Sequences, FiniteSets, TLC

VARIABLES
    file,       \* data.json: [kind, data]; data maps view names to customer lists
    session,    \* per browser session: the signed cookie's keys
    pending,    \* the request in flight (endpoint "" when there is none)
    flashed,    \* the message flashed by the handler of the last handled request
    threads     \* per session: a handler running step by step beside others

vars == <<file, session, pending, flashed, threads>>

----------------------------------------------------------------------------
(* Bounds of the model *)

\* the data file holds at most MaxRecords customer records in total
MaxRecords == 2

\* the browser sessions
Sessions == {"s1", "s2"}

----------------------------------------------------------------------------
(* Text *)

DEFAULT_VIEW == <<"d", "e", "f", "a", "u", "l", "t">>
Annex == <<"a", "n", "n", "e", "x">>
Alice == <<"A", "l", "i", "c", "e">>
Bob == <<"B", "o", "b">>
Blank == <<" ">>
Empty == <<>>

Whitespace == {" ", "\t", "\n", "\r"}
Digits == {"0", "1", "2", "3", "4", "5", "6", "7", "8", "9"}

\* str.strip(): drop leading and trailing whitespace
RECURSIVE lstrip(_)
lstrip(s) ==
    IF s # <<>> /\ Head(s) \in Whitespace THEN lstrip(Tail(s)) ELSE s

RECURSIVE rstrip(_)
rstrip(s) ==
    IF s # <<>> /\ s[Len(s)] \in Whitespace
    THEN rstrip(SubSeq(s, 1, Len(s) - 1))
    ELSE s

strip(s) == rstrip(lstrip(s))

\* the value of a digit ("0" is the last arm)
DigitValue(c) ==
    CASE c = "1" -> 1 [] c = "2" -> 2 [] c = "3" -> 3 [] c = "4" -> 4
      [] c = "5" -> 5 [] c = "6" -> 6 [] c = "7" -> 7 [] c = "8" -> 8
      [] c = "9" -> 9 [] OTHER -> 0

\* the digits of an int() literal: digits, single underscores between them
IsDigitString(d) ==
    /\ d # <<>>
    /\ \A i \in 1..Len(d) : d[i] \in Digits \cup {"_"}
    /\ d[1] \in Digits
    /\ d[Len(d)] \in Digits
    /\ \A i \in 1..(Len(d) - 1) : ~(d[i] = "_" /\ d[i + 1] = "_")

int_body(s) ==
    LET t == strip(s)
    IN IF t # <<>> /\ t[1] \in {"+", "-"} THEN Tail(t) ELSE t

\* int(s) raises ValueError exactly when this is false
int_parses(s) == IsDigitString(int_body(s))

RECURSIVE digits_value(_, _)
digits_value(d, acc) ==
    IF d = <<>> THEN acc
    ELSE IF Head(d) = "_" THEN digits_value(Tail(d), acc)
    ELSE digits_value(Tail(d), 10 * acc + DigitValue(Head(d)))

\* int(s) for a string that parses (Python integers do not overflow)
int(s) ==
    LET t == strip(s)
        v == digits_value(int_body(s), 0)
    IN IF t # <<>> /\ t[1] = "-" THEN 0 - v ELSE v

----------------------------------------------------------------------------
(* The data file *)

\* {DEFAULT_VIEW: []}
DefaultStore == [n \in {DEFAULT_VIEW} |-> <<>>]

NoData == [n \in {} |-> <<>>]

AbsentFile == [kind |-> "absent", data |-> NoData]

\* variant: an absent file loads as the empty dictionary
load_all_data_of_empty(f) ==
    IF f.kind = "dict" THEN f.data ELSE NoData

\* variant: whatever JSON the file holds is returned
load_all_data_of_unchecked(f) ==
    IF f.kind = "absent" THEN DefaultStore
    ELSE IF f.kind \in {"dict", "json"} THEN f.data
    ELSE DefaultStore

\* load_all_data(): the file is absent, holds a JSON dictionary ("dict"),
\* holds other JSON ("json"), or does not parse ("corrupt")
load_all_data_of(f) ==
    IF f.kind = "absent" THEN DefaultStore
    ELSE IF f.kind = "dict" THEN f.data
    ELSE DefaultStore

load_all_data == load_all_data_of(file)

\* save_all_data(data): the whole file is overwritten with the dictionary
save_all_data(data) == file' = [kind |-> "dict", data |-> data]

\* dict.get(view_name, [])
dict_get(all_data, view_name) ==
    IF view_name \in DOMAIN all_data THEN all_data[view_name] ELSE <<>>

load_view_data(view_name) == dict_get(load_all_data, view_name)

\* all_data[view_name] = view_data
dict_set(all_data, view_name, view_data) ==
    [n \in DOMAIN all_data \cup {view_name} |->
        IF n = view_name THEN view_data ELSE all_data[n]]

\* del all_data[view_name]
dict_del(all_data, view_name) ==
    [n \in DOMAIN all_data \ {view_name} |-> all_data[n]]

\* variant: the file is overwritten with the one view alone
save_view_data_alone(view_name, view_data) ==
    save_all_data(dict_set(NoData, view_name, view_data))

\* save_view_data: reload the file, replace one key, write the file
save_view_data(view_name, view_data) ==
    save_all_data(dict_set(load_all_data, view_name, view_data))

get_all_views == DOMAIN load_all_data

RECURSIVE total_people(_)
total_people(data) ==
    IF data = <<>> THEN 0 ELSE Head(data).amount + total_people(Tail(data))

----------------------------------------------------------------------------
(* Sessions, requests and flashed messages *)

\* A session cookie: whether it carries a logged-in user, and the value of
\* session.get('current_view', DEFAULT_VIEW).  A cookie without the key and a
\* cookie holding DEFAULT_VIEW are one value here: the handlers read the key
\* through that default, and where manage_views reads it without the default
\* it compares it with a name that is not DEFAULT_VIEW.
NewSession == [user |-> FALSE, current_view |-> DEFAULT_VIEW]

\* session.get('current_view', DEFAULT_VIEW)
session_get(s) == session[s].current_view

\* session['current_view'] = view_name
session_set(s, view_name) ==
    session' = [session EXCEPT ![s].current_view = view_name]

NoForm ==
    [name |-> Empty, phone |-> Empty, room |-> Empty, amount |-> Empty,
     second_phone |-> Empty, arrived |-> {}, view_name |-> Empty,
     action |-> "", credentials |-> FALSE]

NoRequest == [sid |-> "", endpoint |-> "", method |-> "", form |-> NoForm]

Request(s, endpoint, method, form) ==
    [sid |-> s, endpoint |-> endpoint, method |-> method, form |-> form]

\* the values the requests of the model carry
Names == {Blank, Alice, Bob}
Phones == {<<"0", "5", "0">>}
Rooms == {<<"x">>, <<"1", "0", "1">>}
Amounts == {<<"x">>, <<"3">>, <<"4", "8">>, <<"-", "2">>}
LargeAmounts == {<<"4", "8">>}
SecondPhones == {<<"0", "5", "2">>}
ViewNames == {Blank, DEFAULT_VIEW, Annex}
Actions == {"create", "delete"}

\* every party without a second phone and the large ones with one; the room
\* that is no number is tried with one name
RegisterForms ==
    {f \in
        {[NoForm EXCEPT !.name = n, !.phone = p, !.room = r, !.amount = a] :
            n \in Names, p \in Phones, r \in Rooms, a \in Amounts}
        \cup
        {[NoForm EXCEPT !.name = n, !.phone = p, !.room = r, !.amount = a,
                        !.second_phone = sp] :
            n \in Names, p \in Phones, r \in Rooms, a \in LargeAmounts,
            sp \in SecondPhones} :
        ~int_parses(f.room) => f.name = Alice}

ArrivedForms == {[NoForm EXCEPT !.arrived = sel] : sel \in {{}, {Alice}}}

ManageForms ==
    {[NoForm EXCEPT !.view_name = v, !.action = a] :
        v \in ViewNames, a \in Actions}

SelectForms == {[NoForm EXCEPT !.view_name = v] : v \in {DEFAULT_VIEW, Annex}}

LoginForms == {[NoForm EXCEPT !.credentials = c] : c \in BOOLEAN}

Requests(s) ==
    {Request(s, "index", "GET", NoForm), Request(s, "logout", "GET", NoForm),
     Request(s, "register", "GET", NoForm), Request(s, "arrived", "GET", NoForm),
     Request(s, "manage_views", "GET", NoForm),
     Request(s, "delete_all", "POST", NoForm)}
    \cup {Request(s, "login", "POST", f) : f \in LoginForms}
    \cup {Request(s, "register", "POST", f) : f \in RegisterForms}
    \cup {Request(s, "arrived", "POST", f) : f \in ArrivedForms}
    \cup {Request(s, "manage_views", "POST", f) : f \in ManageForms}
    \cup {Request(s, "select_view", "GET", f) : f \in SelectForms}

\* flash(message, category); the f-string's view name and total are fields
Flash(category, text, view, current) ==
    [category |-> category, text |-> text, view |-> view, current |-> current]

NoFlash == Flash("", "", Empty, 0)

\* a worker of the server that handles no request: its locals are unset
IdleThread ==
    [pc |-> "idle", endpoint |-> "", action |-> "", view_name |-> Empty,
     data |-> <<>>, all_data |-> NoData, overlaid |-> FALSE,
     flashed |-> NoFlash]

flash(category, text) == flashed' = Flash(category, text, Empty, 0)

flash_view(category, text, view) == flashed' = Flash(category, text, view, 0)

\* redirect(...) or render_template(...): the request is answered; a handler
\* that runs to completion in one step runs beside no other
respond == pending' = NoRequest /\ UNCHANGED threads

\* the number of customer records in a store
RECURSIVE RecordCount(_)
RecordCount(all_data) ==
    IF DOMAIN all_data = {} THEN 0
    ELSE LET n == CHOOSE n \in DOMAIN all_data : TRUE
         IN Len(all_data[n]) + RecordCount(dict_del(all_data, n))

----------------------------------------------------------------------------
(* The handlers.  Each handles the request in flight, in one step. *)

\* a client sends a request while none is in flight and the previous answer
\* has been shown
submit(s, r, full) ==
    /\ pending = NoRequest
    /\ flashed = NoFlash
    /\ r.endpoint = "register" /\ r.method = "POST" => ~full
    /\ pending' = r
    /\ UNCHANGED <<file, session, flashed, threads>>

\* the page a handler redirected to is rendered: render_template shows the
\* flashed message, which is then gone
show_flashed ==
    /\ pending = NoRequest
    /\ flashed # NoFlash
    /\ flashed' = NoFlash
    /\ UNCHANGED <<file, session, pending, threads>>

\* @login_required without a logged-in user: flask_login flashes its login
\* message and redirects to login_view; the handler does not run
unauthorized ==
    /\ flashed' = Flash("message", "Please log in to access this page.", Empty, 0)
    /\ respond
    /\ UNCHANGED <<file, session>>

\* variant: the handler runs whoever asks
login_required_open(s, handler) == handler

login_required(s, handler) ==
    IF session[s].user THEN handler ELSE unauthorized

index ==
    /\ pending.endpoint = "index"
    /\ LET s == pending.sid
       IN session_set(s, session_get(s))
    /\ flashed' = NoFlash
    /\ respond
    /\ UNCHANGED file

login ==
    /\ pending.endpoint = "login"
    /\ LET s == pending.sid
       IN IF pending.method = "POST"
          THEN IF pending.form.credentials
               THEN /\ session' = [session EXCEPT ![s].user = TRUE]
                    /\ flash("success", "Logged in successfully!")
               ELSE /\ flash("error", "Invalid username or password")
                    /\ UNCHANGED session
          ELSE /\ flashed' = NoFlash
               /\ UNCHANGED session
    /\ respond
    /\ UNCHANGED file

logout_body(s) ==
    /\ session' = [session EXCEPT ![s].user = FALSE]
    /\ flash("success", "Logged out successfully!")
    /\ respond
    /\ UNCHANGED file

logout ==
    /\ pending.endpoint = "logout"
    /\ login_required(pending.sid, logout_body(pending.sid))

\* not name or not phone or not room or not amount
missing_field(name, phone, room, amount) ==
    name = Empty \/ phone = Empty \/ room = Empty \/ amount = Empty

\* variant: only the room is converted inside the try block
raises_ValueError_room(room, amount) == ~int_parses(room)

\* room = int(room); amount = int(amount) raises ValueError
raises_ValueError(room, amount) == ~int_parses(room) \/ ~int_parses(amount)

\* variant: the "not" is missing
needs_second_phone_given(amount, second_phone) ==
    amount > 6 /\ second_phone # Empty

\* amount > 6 and not second_phone
needs_second_phone(amount, second_phone) ==
    amount > 6 /\ second_phone = Empty

\* variant: the total before the registration is compared
exceeds_capacity_before(data, amount) == total_people(data) > 50

\* variant: the party alone is compared
exceeds_capacity_party(data, amount) == amount > 50

\* total_people(data) + amount > 50
exceeds_capacity(data, amount) == total_people(data) + amount > 50

\* variant: the new customer is stored as arrived
new_customer_arrived(name, phone, room, amount, second_phone) ==
    [name |-> name, phone |-> phone, room |-> room, amount |-> amount,
     arrived |-> TRUE, second_phone |-> second_phone]

new_customer(name, phone, room, amount, second_phone) ==
    [name |-> name, phone |-> phone, room |-> room, amount |-> amount,
     arrived |-> FALSE, second_phone |-> second_phone]

register_body(s) ==
    LET view_name == session_get(s)
        data == load_view_data(view_name)
        name == strip(pending.form.name)
        phone == strip(pending.form.phone)
        room == strip(pending.form.room)
        amount == strip(pending.form.amount)
        second_phone == strip(pending.form.second_phone)
    IN /\ IF pending.method = "POST"
          THEN IF missing_field(name, phone, room, amount)
               THEN /\ flash("error", "Please fill all required fields!")
                    /\ UNCHANGED file
               ELSE IF raises_ValueError(room, amount)
               THEN /\ flash("error", "Room and Amount must be numbers!")
                    /\ UNCHANGED file
               ELSE IF needs_second_phone(int(amount), second_phone)
               THEN /\ flash("error", "Second phone required for groups larger than 6!")
                    /\ UNCHANGED file
               ELSE IF exceeds_capacity(data, int(amount))
               THEN /\ flashed' = Flash("error", "Cannot register: total would exceed 50",
                                        view_name, total_people(data))
                    /\ UNCHANGED file
               ELSE /\ save_view_data(view_name,
                            Append(data, new_customer(name, phone, int(room),
                                                      int(amount), second_phone)))
                    /\ flash("success", "Customer registered successfully!")
          ELSE /\ flashed' = NoFlash
               /\ UNCHANGED file
       /\ respond
       /\ UNCHANGED session

register ==
    /\ pending.endpoint = "register"
    /\ login_required(pending.sid, register_body(pending.sid))

\* variant: a customer once arrived stays arrived
mark_arrived_sticky(data, selected) ==
    [i \in 1..Len(data) |->
        [data[i] EXCEPT !.arrived = (@ \/ data[i].name \in selected)]]

\* variant: only the selected customers are kept
mark_arrived_keep(data, selected) ==
    LET Selected(cust) == cust.name \in selected
    IN [i \in 1..Len(SelectSeq(data, Selected)) |->
           [SelectSeq(data, Selected)[i] EXCEPT !.arrived = TRUE]]

\* for cust in data: cust["arrived"] = cust.get("name") in selected
mark_arrived(data, selected) ==
    [i \in 1..Len(data) |->
        [data[i] EXCEPT !.arrived = (data[i].name \in selected)]]

arrived_body(s) ==
    LET view_name == session_get(s)
        data == load_view_data(view_name)
        selected == pending.form.arrived
    IN /\ IF pending.method = "POST"
          THEN /\ save_view_data(view_name, mark_arrived(data, selected))
               /\ flash_view("success", "Arrived status updated for view", view_name)
          ELSE /\ flashed' = NoFlash
               /\ UNCHANGED file
       /\ respond
       /\ UNCHANGED session

arrived ==
    /\ pending.endpoint = "arrived"
    /\ login_required(pending.sid, arrived_body(pending.sid))

delete_all_body(s) ==
    LET view_name == session_get(s)
    IN /\ save_view_data(view_name, <<>>)
       /\ flash_view("success", "All customer data for view deleted", view_name)
       /\ respond
       /\ UNCHANGED session

delete_all ==
    /\ pending.endpoint = "delete_all"
    /\ login_required(pending.sid, delete_all_body(pending.sid))

\* variant: the default view is not excepted
may_delete_any(all_data, view_name) == view_name \in DOMAIN all_data

\* variant: any name but "default" is taken for a view to delete
may_delete_named(all_data, view_name) == view_name # DEFAULT_VIEW

\* view_name in all_data and view_name != DEFAULT_VIEW
may_delete(all_data, view_name) ==
    view_name \in DOMAIN all_data /\ view_name # DEFAULT_VIEW

\* variant: the name is never taken for an existing one
view_exists_never(all_views, view_name) == FALSE

\* view_name in all_views
view_exists(all_views, view_name) == view_name \in all_views

manage_views_body(s) ==
    LET all_data == load_all_data
        all_views == DOMAIN all_data
        view_name == strip(pending.form.view_name)
        action == pending.form.action
    IN /\ IF pending.method = "POST"
          THEN IF view_name = Empty
               THEN /\ flash("error", "View name cannot be empty.")
                    /\ UNCHANGED <<file, session>>
               ELSE IF action = "create"
               THEN IF view_exists(all_views, view_name)
                    THEN /\ flash_view("error", "View already exists.", view_name)
                         /\ UNCHANGED <<file, session>>
                    ELSE /\ save_all_data(dict_set(all_data, view_name, <<>>))
                         /\ flash_view("success", "View created successfully.", view_name)
                         /\ UNCHANGED session
               ELSE IF action = "delete"
               THEN IF may_delete(all_data, view_name)
                    THEN /\ save_all_data(dict_del(all_data, view_name))
                         /\ IF session[s].current_view = view_name
                            THEN session_set(s, DEFAULT_VIEW)
                            ELSE UNCHANGED session
                         /\ flash_view("success", "View deleted successfully.", view_name)
                    ELSE IF view_name = DEFAULT_VIEW
                    THEN /\ flash("error", "Cannot delete the default view.")
                         /\ UNCHANGED <<file, session>>
                    ELSE /\ flash_view("error", "View not found.", view_name)
                         /\ UNCHANGED <<file, session>>
               ELSE /\ flashed' = NoFlash
                    /\ UNCHANGED <<file, session>>
          ELSE /\ flashed' = NoFlash
               /\ UNCHANGED <<file, session>>
       /\ respond

manage_views ==
    /\ pending.endpoint = "manage_views"
    /\ login_required(pending.sid, manage_views_body(pending.sid))

select_view_body(s) ==
    LET view_name == pending.form.view_name
        all_views == get_all_views
    IN /\ IF view_name \in all_views
          THEN /\ session_set(s, view_name)
               /\ flash_view("success", "Switched to view", view_name)
          ELSE /\ flash_view("error", "View not found.", view_name)
               /\ UNCHANGED session
       /\ respond
       /\ UNCHANGED file

select_view ==
    /\ pending.endpoint = "select_view"
    /\ login_required(pending.sid, select_view_body(pending.sid))

----------------------------------------------------------------------------
(* The specification *)

Init ==
    /\ file = AbsentFile
    /\ session = [s \in Sessions |-> NewSession]
    /\ pending = NoRequest
    /\ flashed = NoFlash
    /\ threads = [s \in Sessions |-> IdleThread]

Submit ==
    LET full == RecordCount(load_all_data) >= MaxRecords
    IN \E s \in Sessions : \E r \in Requests(s) : submit(s, r, full)

Next ==
    \/ Submit
    \/ show_flashed
    \/ index
    \/ login
    \/ logout
    \/ register
    \/ arrived
    \/ delete_all
    \/ manage_views
    \/ select_view

Spec == Init /\ [][Next]_vars

----------------------------------------------------------------------------
(* What the claims speak of *)

\* the store before and after a step, as load_all_data returns it
Store == load_all_data
StoreAfter == load_all_data_of(file')

getView(store, view_name) == dict_get(store, view_name)

\* the request in flight is for this endpoint and comes from a logged-in
\* session: the next step is the handler's body
Handles(endpoint) ==
    pending.endpoint = endpoint /\ session[pending.sid].user

Posts(endpoint) == Handles(endpoint) /\ pending.method = "POST"

\* the view the request in flight works on
ViewOf == session[pending.sid].current_view

FieldsPresent ==
    /\ strip(pending.form.name) # Empty
    /\ strip(pending.form.phone) # Empty
    /\ strip(pending.form.room) # Empty
    /\ strip(pending.form.amount) # Empty

RoomIsNumber == int_parses(pending.form.room)
AmountIsNumber == int_parses(pending.form.amount)
AmountOf == int(pending.form.amount)
NoSecondPhone == strip(pending.form.second_phone) = Empty

MissingError == Flash("error", "Please fill all required fields!", Empty, 0)
NumbersError == Flash("error", "Room and Amount must be numbers!", Empty, 0)
PolicyError ==
    Flash("error", "Second phone required for groups larger than 6!", Empty, 0)
CapacityError(view_name, current) ==
    Flash("error", "Cannot register: total would exceed 50", view_name, current)
ProtectedViewError == Flash("error", "Cannot delete the default view.", Empty, 0)
Registered == Flash("success", "Customer registered successfully!", Empty, 0)

\* the same customers in the same order, the arrived flags apart
SameButArrived(before, after) ==
    /\ Len(after) = Len(before)
    /\ \A i \in 1..Len(before) :
          [after[i] EXCEPT !.arrived = FALSE] = [before[i] EXCEPT !.arrived = FALSE]

\* one customer more, at the end
OneAppended(before, after) ==
    /\ Len(after) = Len(before) + 1
    /\ SubSeq(after, 1, Len(before)) = before

----------------------------------------------------------------------------
(* C1: every successful register leaves the view it registered into with    *)
(* total_people(view) <= 50.                                                *)
C1_RegisterKeepsCap ==
    [][(Posts("register") /\ flashed' = Registered)
        => total_people(getView(StoreAfter, ViewOf)) <= 50]_vars

\* a registration has just brought a view to 48 people
C1_Witness ==
    /\ flashed = Registered
    /\ \E v \in DOMAIN Store : total_people(Store[v]) = 48

(* C2: in every reachable state the loaded store has the key "default", so  *)
(* get_all_views() contains it.                                             *)
C2_DefaultPresent == DEFAULT_VIEW \in get_all_views

\* a view has just been deleted from the written file
C2_Witness ==
    /\ file.kind = "dict"
    /\ flashed.text = "View deleted successfully."

(* C3: a logged-in session's request to delete "default" is answered with   *)
(* "Cannot delete the default view." and changes neither the file nor any   *)
(* session's current view.                                                  *)
C3_DeleteDefaultRefused ==
    [][(/\ Posts("manage_views")
        /\ pending.form.action = "delete"
        /\ pending.form.view_name = DEFAULT_VIEW)
        => (/\ flashed' = ProtectedViewError
            /\ file' = file
            /\ session' = session)]_vars

\* the refusal, in a store that holds another view and a customer
C3_Witness ==
    /\ flashed = ProtectedViewError
    /\ Annex \in DOMAIN Store
    /\ \E v \in DOMAIN Store : Store[v] # <<>>

(* C4: a register that passes the earlier checks and whose amount would     *)
(* bring the view's total over 50 is answered with the capacity error,      *)
(* which names the view and its current total, and leaves the file (so the  *)
(* view and every other view) unchanged.                                    *)
C4_CapacityRefused ==
    [][(/\ Posts("register")
        /\ FieldsPresent /\ RoomIsNumber /\ AmountIsNumber
        /\ ~(AmountOf > 6 /\ NoSecondPhone)
        /\ total_people(getView(Store, ViewOf)) + AmountOf > 50)
        => (/\ flashed' = CapacityError(ViewOf, total_people(getView(Store, ViewOf)))
            /\ file' = file
            /\ StoreAfter = Store)]_vars

\* a view at 48 has refused a registration and is still at 48
C4_Witness ==
    \E v \in DOMAIN Store :
        /\ flashed = CapacityError(v, 48)
        /\ total_people(Store[v]) = 48

(* C5, as stated: a register with amount > 6 and no second phone is always  *)
(* answered with the second-phone error, whatever the other fields are.     *)
C5_AlwaysPolicyError ==
    [][(/\ Posts("register")
        /\ AmountIsNumber /\ AmountOf > 6 /\ NoSecondPhone)
        => (flashed' = PolicyError /\ file' = file)]_vars

(* C5, amended: a register with amount > 6 and no second phone always fails *)
(* and leaves the file unchanged; the error is the second-phone error when  *)
(* name, phone and room are present and the room is a number, the missing-  *)
(* field error when a required field is empty, and the not-a-number error   *)
(* when the room is no number; the view's total plays no part.              *)
C5_PolicyAfterValidation ==
    [][(/\ Posts("register")
        /\ AmountIsNumber /\ AmountOf > 6 /\ NoSecondPhone)
        => (/\ file' = file
            /\ flashed'.category = "error"
            /\ FieldsPresent /\ RoomIsNumber => flashed' = PolicyError
            /\ ~FieldsPresent => flashed' = MissingError
            /\ FieldsPresent /\ ~RoomIsNumber => flashed' = NumbersError)]_vars

\* the second-phone error has been flashed
C5_Witness == flashed = PolicyError

(* C6: a register whose room or amount is no number (int() rejects it) is   *)
(* answered with a validation error - "Room and Amount must be numbers!"    *)
(* when the four required fields are present, the missing-field error       *)
(* otherwise - and leaves the file unchanged.                               *)
C6_NonNumericRefused ==
    [][(/\ Posts("register")
        /\ ~RoomIsNumber \/ ~AmountIsNumber)
        => (/\ flashed' \in {MissingError, NumbersError}
            /\ FieldsPresent => flashed' = NumbersError
            /\ file' = file)]_vars

\* the not-a-number error has been flashed while the store holds a customer
C6_Witness ==
    /\ flashed = NumbersError
    /\ \E v \in DOMAIN Store : Store[v] # <<>>

(* C7: a register that passes every check appends one customer at the end   *)
(* of the view's list, with the stripped name, the parsed amount and        *)
(* arrived = FALSE, keeps the earlier customers in their order and raises   *)
(* total_people(view) by the amount.                                        *)
C7_RegisterAppends ==
    [][(/\ Posts("register")
        /\ FieldsPresent /\ RoomIsNumber /\ AmountIsNumber
        /\ ~(AmountOf > 6 /\ NoSecondPhone)
        /\ total_people(getView(Store, ViewOf)) + AmountOf <= 50)
        => LET before == getView(Store, ViewOf)
               after == getView(StoreAfter, ViewOf)
           IN /\ flashed' = Registered
              /\ OneAppended(before, after)
              /\ after[Len(after)].name = strip(pending.form.name)
              /\ after[Len(after)].amount = AmountOf
              /\ after[Len(after)].arrived = FALSE
              /\ total_people(after) = total_people(before) + AmountOf]_vars

\* from the empty store: Alice, room 101, 3 people, is the one customer of
\* "default", not arrived, and the total is 3
C7_Witness ==
    /\ flashed = Registered
    /\ DOMAIN Store = {DEFAULT_VIEW}
    /\ Len(Store[DEFAULT_VIEW]) = 1
    /\ Store[DEFAULT_VIEW][1].name = Alice
    /\ Store[DEFAULT_VIEW][1].room = 101
    /\ Store[DEFAULT_VIEW][1].amount = 3
    /\ Store[DEFAULT_VIEW][1].arrived = FALSE
    /\ total_people(Store[DEFAULT_VIEW]) = 3

(* C8: the arrived form sets, for every customer of the view, arrived to    *)
(* (name in the selected names) and changes nothing else of the view: same  *)
(* customers, same order, same other fields, same total.                    *)
C8_ArrivedSetsFlags ==
    [][Posts("arrived")
        => LET before == getView(Store, ViewOf)
               after == getView(StoreAfter, ViewOf)
           IN /\ Len(after) = Len(before)
              /\ \A i \in 1..Len(before) :
                    after[i] = [before[i] EXCEPT
                                  !.arrived = (before[i].name \in pending.form.arrived)]
              /\ total_people(after) = total_people(before)]_vars

\* after the form: Alice has arrived and Bob, in the same view, has not
C8_Witness ==
    /\ flashed.text = "Arrived status updated for view"
    /\ \E i, j \in 1..Len(getView(Store, flashed.view)) :
          /\ Store[flashed.view][i].name = Alice
          /\ Store[flashed.view][i].arrived
          /\ Store[flashed.view][j].name = Bob
          /\ ~Store[flashed.view][j].arrived

(* C9: a register, arrived or delete_all request on view v leaves the       *)
(* customer list and the total of every other view unchanged.               *)
C9_OtherViewsUntouched ==
    [][(Handles("register") \/ Handles("arrived") \/ Handles("delete_all"))
        => \A w \in (DOMAIN Store \cup DOMAIN StoreAfter) \ {ViewOf} :
              /\ getView(StoreAfter, w) = getView(Store, w)
              /\ total_people(getView(StoreAfter, w))
                    = total_people(getView(Store, w))]_vars

\* a registration into "annex" while "default" holds customers
C9_Witness ==
    /\ flashed = Registered
    /\ Annex \in DOMAIN Store
    /\ Store[Annex] # <<>>
    /\ Store[DEFAULT_VIEW] # <<>>
    /\ ~Store[Annex][Len(Store[Annex])].arrived
    /\ \E s \in Sessions : session[s].current_view = Annex

(* C10: across any step a view's customer list is afterwards (a) the same   *)
(* records, arrived flags apart, (b) the list with one record appended,     *)
(* (c) empty, or (d) gone with its view; and only register makes a list     *)
(* longer.                                                                  *)
C10_RecordsLifeCycle ==
    [][\A v \in DOMAIN Store \cup DOMAIN StoreAfter :
          LET before == getView(Store, v)
              after == getView(StoreAfter, v)
          IN /\ \/ SameButArrived(before, after)
                \/ OneAppended(before, after)
                \/ after = <<>>
                \/ v \notin DOMAIN StoreAfter
             /\ Len(after) > Len(before) => pending.endpoint = "register"]_vars

\* the arrived form has been handled on a view of two customers
C10_Witness ==
    /\ flashed.text = "Arrived status updated for view"
    /\ Len(getView(Store, flashed.view)) = 2

\* the answers of the views form
DuplicateError(view_name) == Flash("error", "View already exists.", view_name, 0)

NotFoundError(view_name) == Flash("error", "View not found.", view_name, 0)

\* the view named in the views form, as the handler reads it
NamedView == strip(pending.form.view_name)

Creates == Posts("manage_views") /\ pending.form.action = "create"

Deletes == Posts("manage_views") /\ pending.form.action = "delete"

(* C11: creating a view under a name that is already a key is refused with  *)
(* "already exists" and leaves the store, that view's customers included,   *)
(* as it was; creating one under a new non-empty name adds the name with an *)
(* empty list and leaves every existing view unchanged.                     *)
C11_CreateView ==
    [][Creates /\ NamedView # Empty
        => IF NamedView \in DOMAIN Store
           THEN /\ flashed' = DuplicateError(NamedView)
                /\ file' = file
                /\ StoreAfter = Store
           ELSE /\ DOMAIN StoreAfter = DOMAIN Store \cup {NamedView}
                /\ StoreAfter[NamedView] = <<>>
                /\ \A v \in DOMAIN Store : StoreAfter[v] = Store[v]]_vars

\* "annex" was created, took a customer, and its second creation is refused
C11_Witness ==
    /\ flashed = DuplicateError(Annex)
    /\ Annex \in DOMAIN Store
    /\ Store[Annex] # <<>>

(* C12: deleting a view under a name that is no key (and is not "default")  *)
(* is refused with "not found" and leaves the store as it was; deleting an  *)
(* existing view other than "default" removes exactly that key and leaves   *)
(* the customers of every other view unchanged.                             *)
C12_DeleteView ==
    [][Deletes /\ NamedView # Empty /\ NamedView # DEFAULT_VIEW
        => IF NamedView \in DOMAIN Store
           THEN /\ DOMAIN StoreAfter = DOMAIN Store \ {NamedView}
                /\ \A v \in DOMAIN StoreAfter : StoreAfter[v] = Store[v]
           ELSE /\ flashed' = NotFoundError(NamedView)
                /\ file' = file
                /\ StoreAfter = Store]_vars

\* "annex" has been deleted while "default" holds a customer
C12_Witness ==
    /\ flashed = Flash("success", "View deleted successfully.", Annex, 0)
    /\ Annex \notin DOMAIN Store
    /\ Store[DEFAULT_VIEW] # <<>>

\* the endpoints behind @login_required that write the data file
Protected == {"register", "arrived", "delete_all", "manage_views", "select_view"}

(* C15: a request to register, arrived, delete_all, views/manage or         *)
(* views/select from a session that is not logged in leaves the data file   *)
(* as it was, and the data file changes only in a step that handles the     *)
(* request of a logged-in session.                                          *)
C15_OnlyLoggedInWrites ==
    [][/\ (pending.endpoint \in Protected /\ ~session[pending.sid].user)
            => file' = file /\ StoreAfter = Store
       /\ file' # file
            => pending # NoRequest /\ session[pending.sid].user]_vars

\* a stranger's request has been turned away from a store that holds a customer
C15_Witness ==
    /\ flashed.text = "Please log in to access this page."
    /\ Store[DEFAULT_VIEW] # <<>>

(* C16: the current view of every session always names a view that is a key *)
(* of the store.                                                            *)
C16_CurrentViewExists ==
    \A s \in Sessions : session[s].current_view \in DOMAIN Store

(* C17: a name that is no key of the store becomes one only in the step of  *)
(* a successful creation of a view under that name, whatever register,      *)
(* arrived and delete_all requests the sessions issue.                      *)
C17_KeyOnlyByCreate ==
    [][\A v \in DOMAIN StoreAfter \ DOMAIN Store :
          Creates /\ NamedView = v]_vars

(* C18: every stored customer has an amount of at least 1, so that the      *)
(* total of every view is at least 0: register accepts no zero or negative  *)
(* amount.                                                                  *)
C18_AmountsPositive ==
    \A v \in DOMAIN Store :
       /\ \A i \in 1..Len(Store[v]) : Store[v][i].amount >= 1
       /\ total_people(Store[v]) >= 0

----------------------------------------------------------------------------
(* Loading, as a function of what the data file holds.  The file is any of  *)
(* the files below, not only those the handlers write.                      *)

\* a file that json.load does not parse
CorruptFile == [kind |-> "corrupt", data |-> NoData]

\* a file that holds the JSON list []
ListFile == [kind |-> "json", data |-> <<>>]

StoredLists == {<<>>, <<new_customer(Alice, <<"0", "5", "0">>, 101, 3, Empty)>>}

DictFiles ==
    {[kind |-> "dict", data |-> d] :
        d \in UNION {[names -> StoredLists] : names \in SUBSET {DEFAULT_VIEW, Annex}}}

DataFiles == {AbsentFile, CorruptFile, ListFile} \cup DictFiles

InitLoad ==
    /\ file \in DataFiles
    /\ session = [s \in Sessions |-> NewSession]
    /\ pending = NoRequest
    /\ flashed = NoFlash
    /\ threads = [s \in Sessions |-> IdleThread]

\* load_view_data(view_name) in a worker: all_data = load_all_data(), then
\* all_data.get(view_name, [])
LoadView(s, view_name) ==
    /\ threads[s].pc = "idle"
    /\ threads' = [threads EXCEPT ![s] =
          [IdleThread EXCEPT !.pc = "loaded",
                             !.view_name = view_name,
                             !.all_data = load_all_data,
                             !.data = load_view_data(view_name)]]
    /\ UNCHANGED <<file, session, pending, flashed>>

\* the worker returns and its locals are gone
Return(s) ==
    /\ threads[s].pc = "loaded"
    /\ threads' = [threads EXCEPT ![s] = IdleThread]
    /\ UNCHANGED <<file, session, pending, flashed>>

NextLoad ==
    \/ \E s \in Sessions, view_name \in ViewNames : LoadView(s, view_name)
    \/ \E s \in Sessions : Return(s)

SpecLoad == InitLoad /\ [][NextLoad]_vars

(* C14: loading returns exactly {"default": []} when the data file is       *)
(* absent, does not parse, or holds JSON that is no dictionary; and the     *)
(* view loaded under a name that is no key of the loaded store is the empty *)
(* list.                                                                    *)
C14_LoadDefaults ==
    \A s \in Sessions :
       threads[s].pc = "loaded"
          => /\ file.kind \in {"absent", "corrupt", "json"}
                  => threads[s].all_data = DefaultStore
             /\ threads[s].view_name \notin DOMAIN threads[s].all_data
                  => threads[s].data = <<>>

\* "annex" has been loaded from a file that holds a JSON list
C14_Witness ==
    \E s \in Sessions :
       /\ threads[s].pc = "loaded"
       /\ file = ListFile
       /\ threads[s].view_name = Annex
       /\ threads[s].all_data = DefaultStore
       /\ threads[s].data = <<>>

----------------------------------------------------------------------------
(* The handlers run by concurrent workers, one request per session at a     *)
(* time.  A handler takes a step at each access to the data file: a load    *)
(* (open, json.load), the truncation by open(DATA_FILE, "w"), and the write *)
(* of json.dump; what it does between two accesses touches its locals only  *)
(* and belongs to the step of the access before.  The sessions are logged   *)
(* in.                                                                      *)

LoggedIn == [user |-> TRUE, current_view |-> DEFAULT_VIEW]

\* register forms that pass the checks of the fields: Alice's party of 3 and
\* Bob's party of 48 with its second phone
ConcRegisterForms ==
    {f \in RegisterForms :
        /\ int_parses(f.room)
        /\ \/ f.name = Alice /\ f.amount = <<"3">>
           \/ f.name = Bob /\ f.amount \in LargeAmounts /\ f.second_phone # Empty}

\* the arrived form with Bob selected
ConcArrivedForms == {[NoForm EXCEPT !.arrived = {Bob}]}

\* views forms for the one other view
ConcManageForms == {f \in ManageForms : strip(f.view_name) = Annex}

thread_set(s, t) == threads' = [threads EXCEPT ![s] = t]

\* the locals of the handler of a request to endpoint
Thread(endpoint, pc, view_name, data, all_data, flash_message) ==
    [IdleThread EXCEPT !.pc = pc, !.endpoint = endpoint, !.view_name = view_name,
                       !.data = data, !.all_data = all_data,
                       !.flashed = flash_message]

\* variant: the last record is appended to the list the file holds
reload_with_merge(all_data, view_name, view_data) ==
    dict_set(all_data, view_name,
             IF view_data = <<>> THEN <<>>
             ELSE Append(dict_get(all_data, view_name), view_data[Len(view_data)]))

\* save_view_data: all_data = load_all_data(); all_data[view_name] = view_data
reload_with(all_data, view_name, view_data) ==
    dict_set(all_data, view_name, view_data)

InitConc ==
    /\ file = AbsentFile
    /\ session = [s \in Sessions |-> LoggedIn]
    /\ pending = NoRequest
    /\ flashed = NoFlash
    /\ threads = [s \in Sessions |-> IdleThread]

\* register, POST: load_view_data, the checks, data.append
conc_register(s, form) ==
    LET view_name == session_get(s)
        data == load_view_data(view_name)
        name == strip(form.name)
        phone == strip(form.phone)
        room == strip(form.room)
        amount == strip(form.amount)
        second_phone == strip(form.second_phone)
        Answer(flash_message) ==
            Thread("register", "done", view_name, <<>>, NoData, flash_message)
    IN /\ threads[s].pc = "idle"
       /\ RecordCount(load_all_data) < MaxRecords
       /\ thread_set(s,
            IF missing_field(name, phone, room, amount)
            THEN Answer(Flash("error", "Please fill all required fields!", Empty, 0))
            ELSE IF raises_ValueError(room, amount)
            THEN Answer(Flash("error", "Room and Amount must be numbers!", Empty, 0))
            ELSE IF needs_second_phone(int(amount), second_phone)
            THEN Answer(Flash("error", "Second phone required for groups larger than 6!",
                              Empty, 0))
            ELSE IF exceeds_capacity(data, int(amount))
            THEN Answer(Flash("error", "Cannot register: total would exceed 50",
                              view_name, total_people(data)))
            ELSE Thread("register", "reload", view_name,
                        Append(data, new_customer(name, phone, int(room),
                                                  int(amount), second_phone)),
                        NoData,
                        Flash("success", "Customer registered successfully!", Empty, 0)))
       /\ UNCHANGED <<file, session, pending, flashed>>

\* arrived, POST: load_view_data and the loop over the customers
conc_arrived(s, form) ==
    LET view_name == session_get(s)
        data == load_view_data(view_name)
    IN /\ threads[s].pc = "idle"
       /\ thread_set(s, Thread("arrived", "reload", view_name,
                               mark_arrived(data, form.arrived), NoData,
                               Flash("success", "Arrived status updated for view",
                                     view_name, 0)))
       /\ UNCHANGED <<file, session, pending, flashed>>

\* delete_all: its first access to the file is the load of save_view_data
conc_delete_all(s) ==
    LET view_name == session_get(s)
    IN /\ threads[s].pc = "idle"
       /\ thread_set(s, Thread("delete_all", "open", view_name, <<>>,
                               reload_with(load_all_data, view_name, <<>>),
                               Flash("success", "All customer data for view deleted",
                                     view_name, 0)))
       /\ UNCHANGED <<file, session, pending, flashed>>

\* manage_views, POST: load_all_data and the change of the loaded dictionary
conc_manage_views(s, form) ==
    LET all_data == load_all_data
        all_views == DOMAIN all_data
        view_name == strip(form.view_name)
        action == form.action
        Answer(flash_message) ==
            Thread("manage_views", "done", view_name, <<>>, NoData, flash_message)
        Saving(changed, flash_message) ==
            [Thread("manage_views", "open", view_name, <<>>, changed, flash_message)
                EXCEPT !.action = action]
    IN /\ threads[s].pc = "idle"
       /\ thread_set(s,
            IF view_name = Empty
            THEN Answer(Flash("error", "View name cannot be empty.", Empty, 0))
            ELSE IF action = "create"
            THEN IF view_exists(all_views, view_name)
                 THEN Answer(Flash("error", "View already exists.", view_name, 0))
                 ELSE Saving(dict_set(all_data, view_name, <<>>),
                             Flash("success", "View created successfully.", view_name, 0))
            ELSE IF may_delete(all_data, view_name)
                 THEN Saving(dict_del(all_data, view_name),
                             Flash("success", "View deleted successfully.", view_name, 0))
                 ELSE IF view_name = DEFAULT_VIEW
                 THEN Answer(Flash("error", "Cannot delete the default view.", Empty, 0))
                 ELSE Answer(Flash("error", "View not found.", view_name, 0)))
       /\ UNCHANGED <<file, session, pending, flashed>>

\* select_view: get_all_views and the assignment to the session
conc_select_view(s, form) ==
    /\ threads[s].pc = "idle"
    /\ LET view_name == form.view_name
       IN IF view_name \in get_all_views
          THEN /\ session_set(s, view_name)
               /\ thread_set(s, Thread("select_view", "done", view_name, <<>>, NoData,
                                       Flash("success", "Switched to view", view_name, 0)))
          ELSE /\ UNCHANGED session
               /\ thread_set(s, Thread("select_view", "done", view_name, <<>>, NoData,
                                       Flash("error", "View not found.", view_name, 0)))
    /\ UNCHANGED <<file, pending, flashed>>

\* save_view_data, lines 89-90: the file is loaded again and the view replaced
conc_reload(s) ==
    /\ threads[s].pc = "reload"
    /\ thread_set(s, [threads[s] EXCEPT
          !.pc = "open",
          !.all_data = reload_with(load_all_data, threads[s].view_name,
                                   threads[s].data)])
    /\ UNCHANGED <<file, session, pending, flashed>>

\* save_all_data, open(DATA_FILE, "w"): the file is truncated, and an empty
\* file does not parse; what another worker has still to write will go over
\* nothing
conc_open(s) ==
    /\ threads[s].pc = "open"
    /\ file' = CorruptFile
    /\ threads' = [t \in Sessions |->
          IF t = s THEN [threads[s] EXCEPT !.pc = "write"]
          ELSE [threads[t] EXCEPT !.overlaid = FALSE]]
    /\ UNCHANGED <<session, pending, flashed>>

\* save_all_data, json.dump and close: the dictionary is written from the
\* start of the file.  Over what another worker wrote since the truncation
\* the file holds the dictionary, or the dictionary and the rest of a longer
\* text, which does not parse.  Then the handler flashes its message and,
\* after the deletion of its current view, goes back to the default view; of
\* its locals the saved list and the message are kept for the answer.
conc_write(s) ==
    /\ threads[s].pc = "write"
    /\ \/ file' = [kind |-> "dict", data |-> threads[s].all_data]
       \/ threads[s].overlaid /\ file' = CorruptFile
    /\ threads' = [t \in Sessions |->
          IF t = s THEN [threads[s] EXCEPT !.pc = "done", !.all_data = NoData]
          ELSE IF threads[t].pc = "write" THEN [threads[t] EXCEPT !.overlaid = TRUE]
          ELSE threads[t]]
    /\ IF /\ threads[s].action = "delete"
          /\ session[s].current_view = threads[s].view_name
       THEN session_set(s, DEFAULT_VIEW)
       ELSE UNCHANGED session
    /\ UNCHANGED <<pending, flashed>>

\* redirect or render_template: the request is answered
conc_respond(s) ==
    /\ threads[s].pc = "done"
    /\ thread_set(s, IdleThread)
    /\ UNCHANGED <<file, session, pending, flashed>>

NextConc ==
    \/ \E s \in Sessions, form \in ConcRegisterForms : conc_register(s, form)
    \/ \E s \in Sessions, form \in ConcArrivedForms : conc_arrived(s, form)
    \/ \E s \in Sessions : conc_delete_all(s)
    \/ \E s \in Sessions, form \in ConcManageForms : conc_manage_views(s, form)
    \/ \E s \in Sessions, form \in SelectForms : conc_select_view(s, form)
    \/ \E s \in Sessions : conc_reload(s)
    \/ \E s \in Sessions : conc_open(s)
    \/ \E s \in Sessions : conc_write(s)
    \/ \E s \in Sessions : conc_respond(s)

SpecConc == InitConc /\ [][NextConc]_vars

\* the worker has answered a register request with success
HasRegistered(s) ==
    /\ threads[s].pc = "done"
    /\ threads[s].endpoint = "register"
    /\ threads[s].flashed = Registered

\* two workers have registered into one view, and the second wrote its file
\* after the first wrote while the second had the file open
BothRegistered(first, second) ==
    /\ first # second
    /\ HasRegistered(first)
    /\ HasRegistered(second)
    /\ threads[first].view_name = threads[second].view_name
    /\ threads[second].overlaid
    /\ file.kind = "dict"

(* C13: with no lock the last writer wins.  When a register request writes  *)
(* the file, the view it registered into is afterwards the list that its    *)
(* handler loaded at its start with its own customer appended, whatever     *)
(* other requests have saved since; so two concurrent register requests     *)
(* into one view that both report success can leave only one of the two     *)
(* customers in the view (the witness).                                     *)
C13_LastWriterWins ==
    [][\A s \in Sessions :
          (/\ threads[s].endpoint = "register"
           /\ threads[s].pc = "write"
           /\ threads'[s].pc = "done"
           /\ file'.kind = "dict")
          => getView(StoreAfter, threads[s].view_name) = threads[s].data]_vars

\* both register requests reported success, and the customer of the first
\* is not in the view
C13_Witness ==
    \E first, second \in Sessions :
       /\ BothRegistered(first, second)
       /\ LET view == getView(Store, threads[second].view_name)
              lost == threads[first].data[Len(threads[first].data)]
          IN /\ view = threads[second].data
             /\ \A i \in 1..Len(view) : view[i] # lost

(* C19: however the loads, checks and saves of concurrent register,         *)
(* arrived, delete_all and manage_views requests interleave, every view of  *)
(* every dictionary that the data file holds has a total of at most 50.     *)
C19_CapUnderInterleaving ==
    file.kind = "dict"
       => \A v \in DOMAIN file.data : total_people(file.data[v]) <= 50

\* two parties of 48 were registered into one view at once, and the view
\* holds 48 people
C19_Witness ==
    \E first, second \in Sessions :
       /\ BothRegistered(first, second)
       /\ threads[first].data[Len(threads[first].data)].amount = 48
       /\ threads[second].data[Len(threads[second].data)].amount = 48
       /\ total_people(getView(Store, threads[second].view_name)) = 48

====
